---- MODULE Spec2Model ----
(***************************************************************************)
(* The review widget of js/main.js: the collection persisted in            *)
(* localStorage under 'portfolio_reviews', the panel of review cards, the  *)
(* star-rating control and the submit handler of the review form.          *)
(*                                                                         *)
(* js/main.js is two generations of the same script in one file.  Function *)
(* declarations are hoisted and the later declaration of a name replaces   *)
(* the earlier one, so every call of initReviewSystem, showNotification,   *)
(* ... runs the declaration of lines 1256-2583.  The DOMContentLoaded      *)
(* listeners of both generations are all registered (lines 15, 570, 854,   *)
(* 1268, 1825), so one page view runs initReviewSystem twice: once as the  *)
(* listener of line 854 and once from the listener of line 1268 (line      *)
(* 1292).                                                                  *)
(*                                                                         *)
(* A string is a sequence of one-character strings, so that trim,          *)
(* escapeHTML, charAt and the HTML parser behind innerHTML are computed    *)
(* character by character.                                                 *)
(***************************************************************************)
EXTENDS Integers, Sequences, FiniteSets, TLC

VARIABLES
  store,            \* localStorage item 'portfolio_reviews'
  cards,            \* .review-card children of #reviews-container, top to bottom
  ratingValue,      \* #rating-value .value
  activeStars,      \* indices (0..4) of the stars carrying class 'active'
  hoverStars,       \* indices (0..4) of the stars carrying class 'hover'
  starListeners,    \* click listeners installed on each star
  submitListeners,  \* submit listeners installed on #review-form
  modalActive,      \* #review-modal carries class 'active'
  bodyOverflow,     \* document.body.style.overflow
  notifs,           \* .notification elements in the document, in document order
  notifIds,         \* history: for each of them, its number among the
                    \* notifications showNotification has created
  timers,           \* the setTimeout callbacks of showNotification that are pending
  created,          \* history: notifications created so far
  pageError,        \* an exception escaped a DOMContentLoaded listener of this page view
  now,              \* the latest reading of Date.now()
  accepted,         \* history: the reviews the submit listener built, each with the
                    \* field values it was built from, oldest first
  last,             \* history: the DOM event dispatched last
  loads,            \* page views so far
  submits,          \* submit events so far
  theme,            \* the data-theme attribute of the html element as the page's
                    \* HTML gives it (html) and as it is now (attr), the item
                    \* 'theme' of localStorage (stored), and the click listeners
                    \* installed on #theme-toggle
  contact,          \* #contact-form: its submit listeners, its submit button and
                    \* the fetch requests that have not settled
  menu,             \* the mobile menu: #nav-links carries 'active', and the click
                    \* listeners installed on #mobile-menu-btn
  other,            \* the review widget in a second tab of the same origin
  pending           \* per tab: the submit listener that has read the item
                    \* (getItem, line 2085) and not yet written it (setItem, line 2091)

vars == << store, cards, ratingValue, activeStars, hoverStars, starListeners,
           submitListeners, modalActive, bodyOverflow, notifs, notifIds, timers,
           created, pageError, now, accepted, last, loads, submits, theme, contact,
           menu, other, pending >>

----------------------------------------------------------------------------
(* Bounds of the model *)

\* submit events in one behaviour of Spec
MaxSubmits == 2
\* page views in one behaviour
MaxLoads == 2

----------------------------------------------------------------------------
(* Strings *)

Str0 == << >>

\* String.prototype.trim strips white space from both ends
WhiteSpace == {" "}

RECURSIVE TrimStart(_)
TrimStart(s) ==
  IF s # << >> /\ Head(s) \in WhiteSpace THEN TrimStart(Tail(s)) ELSE s

RECURSIVE TrimEnd(_)
TrimEnd(s) ==
  IF s # << >> /\ s[Len(s)] \in WhiteSpace THEN TrimEnd(SubSeq(s, 1, Len(s) - 1)) ELSE s

Trim(s) == TrimEnd(TrimStart(s))

StartsWith(s, p) == Len(s) >= Len(p) /\ SubSeq(s, 1, Len(p)) = p

LowerCase == <<"a","b","c","d","e","f","g","h","i","j","k","l","m",
               "n","o","p","q","r","s","t","u","v","w","x","y","z">>
UpperCase == <<"A","B","C","D","E","F","G","H","I","J","K","L","M",
               "N","O","P","Q","R","S","T","U","V","W","X","Y","Z">>
Letters == {LowerCase[i] : i \in DOMAIN LowerCase} \cup {UpperCase[i] : i \in DOMAIN UpperCase}

\* String.prototype.toUpperCase on a string of at most one character
ToUpperCase(s) ==
  [i \in DOMAIN s |->
     IF \E k \in DOMAIN LowerCase : LowerCase[k] = s[i]
     THEN UpperCase[CHOOSE k \in DOMAIN LowerCase : LowerCase[k] = s[i]]
     ELSE s[i]]

\* String.prototype.charAt(0): the first character, '' for the empty string
CharAt0(s) == IF s = << >> THEN << >> ELSE << Head(s) >>

\* The HTML fragment serialisation of one character of a text node
\* (div.textContent = str; div.innerHTML)
EscapeChar(c) ==
  CASE c = "&" -> <<"&", "a", "m", "p", ";">>
    [] c = "<" -> <<"&", "l", "t", ";">>
    [] c = ">" -> <<"&", "g", "t", ";">>
    [] OTHER   -> << c >>

\* A mutant of escapeHTML: the string is returned as typed
escapeHTMLNone(str) == str

RECURSIVE escapeHTML(_)
escapeHTML(str) ==
  IF str = << >> THEN << >> ELSE EscapeChar(Head(str)) \o escapeHTML(Tail(str))

\* The character reference at the head of s, as the HTML tokenizer reads it
\* in element content: &amp; &lt; &gt;, with or without the semicolon.
\* n = 0 when s does not start with one.
CharRef(s) ==
  LET semi(k) == IF Len(s) > k /\ s[k + 1] = ";" THEN k + 1 ELSE k
  IN CASE StartsWith(s, <<"&", "a", "m", "p">>) -> [ch |-> "&", n |-> semi(4)]
       [] StartsWith(s, <<"&", "l", "t">>)      -> [ch |-> "<", n |-> semi(3)]
       [] StartsWith(s, <<"&", "g", "t">>)      -> [ch |-> ">", n |-> semi(3)]
       [] OTHER                                 -> [ch |-> "",  n |-> 0]

\* After '<' these open a tag, an end tag, a comment or a bogus comment
TagOpeners == Letters \cup {"/", "!", "?"}

\* The character reference that starts at position j of s
RefAt(s, j) ==
  CharRef(SubSeq(s, j, IF j + 4 < Len(s) THEN j + 4 ELSE Len(s)))

\* Position i of s lies inside a character reference that starts before it
InsideRef(s, i) ==
  \E j \in (i - 4)..(i - 1) : j >= 1 /\ s[j] = "&" /\ j + RefAt(s, j).n > i

\* '<' at position i opens markup ('<' is never part of a character reference)
OpensMarkup(s, i) ==
  s[i] = "<" /\ i < Len(s) /\ s[i + 1] \in TagOpeners

\* The text the tokenizer emits for position i of s
Emitted(s, i) ==
  IF s[i] = "&" /\ RefAt(s, i).n > 0 THEN << RefAt(s, i).ch >>
  ELSE IF InsideRef(s, i) THEN << >>
  ELSE << s[i] >>

\* The text emitted for positions lo..hi of s, left to right
RECURSIVE EmittedText(_, _, _)
EmittedText(s, lo, hi) ==
  IF lo > hi THEN << >>
  ELSE IF lo = hi THEN Emitted(s, lo)
  ELSE LET mid == (lo + hi) \div 2
       IN EmittedText(s, lo, mid) \o EmittedText(s, mid + 1, hi)

\* What assigning innerHTML makes of a fragment placed in element content:
\* the text of the resulting text node, and whether the fragment opened any
\* markup of its own (the text is cut at the first markup).
ParseFragment(s) ==
  LET opens == {i \in 1..Len(s) : OpensMarkup(s, i)}
      stop  == IF opens = {} THEN Len(s)
               ELSE (CHOOSE i \in opens : \A k \in opens : i <= k) - 1
  IN [text |-> EmittedText(s, 1, stop), markup |-> opens # {}]

\* parseInt on the values #rating-value takes
ParseInt(v) ==
  CASE v = "0" -> 0 [] v = "1" -> 1 [] v = "2" -> 2
    [] v = "3" -> 3 [] v = "4" -> 4 [] v = "5" -> 5

\* new Date(t).toISOString(): the text of instant t
ISOString(t) == ToString(t)

----------------------------------------------------------------------------
(* Reviews and the persisted item *)

\* "Keep only last 50 reviews"
MaxStored == 50

Client == <<"C", "l", "i", "e", "n", "t">>

RejectMessage == "Please select a star rating"
ThanksMessage == "Thank you for your review!"

Seed1Name ==
  << "A", "h", "m", "e", "d", " ", "H", "a", "s", "s", "a", "n" >>

Seed1Role ==
  << "C", "E", "O", ",", " ", "T", "e", "c", "h", "S", "t", "a", "r", "t" >>

Seed1Text ==
  << "E", "x", "c", "e", "l", "l", "e", "n", "t", " ", "w", "o", "r", "k", " ", "o",
     "n", " ", "o", "u", "r", " ", "c", "o", "m", "p", "a", "n", "y", " ", "w", "e",
     "b", "s", "i", "t", "e", "!", " ", "S", "a", "q", "i", "b", " ", "d", "e", "l",
     "i", "v", "e", "r", "e", "d", " ", "b", "e", "y", "o", "n", "d", " ", "e", "x",
     "p", "e", "c", "t", "a", "t", "i", "o", "n", "s", " ", "w", "i", "t", "h", " ",
     "g", "r", "e", "a", "t", " ", "a", "t", "t", "e", "n", "t", "i", "o", "n", " ",
     "t", "o", " ", "d", "e", "t", "a", "i", "l", " ", "a", "n", "d", " ", "p", "r",
     "o", "f", "e", "s", "s", "i", "o", "n", "a", "l", " ", "c", "o", "m", "m", "u",
     "n", "i", "c", "a", "t", "i", "o", "n", " ", "t", "h", "r", "o", "u", "g", "h",
     "o", "u", "t", " ", "t", "h", "e", " ", "p", "r", "o", "j", "e", "c", "t", "." >>

Seed2Name ==
  << "S", "a", "r", "a", "h", " ", "M", "i", "l", "l", "e", "r" >>

Seed2Role ==
  << "F", "o", "u", "n", "d", "e", "r", ",", " ", "D", "e", "s", "i", "g", "n", "H",
     "u", "b" >>

Seed2Text ==
  << "W", "o", "r", "k", "i", "n", "g", " ", "w", "i", "t", "h", " ", "S", "a", "q",
     "i", "b", " ", "w", "a", "s", " ", "a", " ", "f", "a", "n", "t", "a", "s", "t",
     "i", "c", " ", "e", "x", "p", "e", "r", "i", "e", "n", "c", "e", ".", " ", "H",
     "e", " ", "u", "n", "d", "e", "r", "s", "t", "o", "o", "d", " ", "o", "u", "r",
     " ", "v", "i", "s", "i", "o", "n", " ", "p", "e", "r", "f", "e", "c", "t", "l",
     "y", " ", "a", "n", "d", " ", "c", "r", "e", "a", "t", "e", "d", " ", "a", " ",
     "b", "e", "a", "u", "t", "i", "f", "u", "l", ",", " ", "f", "u", "n", "c", "t",
     "i", "o", "n", "a", "l", " ", "w", "e", "b", " ", "a", "p", "p", "l", "i", "c",
     "a", "t", "i", "o", "n", ".", " ", "H", "i", "g", "h", "l", "y", " ", "r", "e",
     "c", "o", "m", "m", "e", "n", "d", "e", "d", "!" >>

Seed3Name ==
  << "M", "u", "h", "a", "m", "m", "a", "d", " ", "A", "l", "i" >>

Seed3Role ==
  << "P", "r", "o", "j", "e", "c", "t", " ", "M", "a", "n", "a", "g", "e", "r" >>

Seed3Text ==
  << "G", "r", "e", "a", "t", " ", "d", "e", "v", "e", "l", "o", "p", "e", "r", " ",
     "w", "i", "t", "h", " ", "s", "t", "r", "o", "n", "g", " ", "t", "e", "c", "h",
     "n", "i", "c", "a", "l", " ", "s", "k", "i", "l", "l", "s", ".", " ", "T", "h",
     "e", " ", "m", "o", "b", "i", "l", "e", " ", "a", "p", "p", " ", "h", "e", " ",
     "b", "u", "i", "l", "t", " ", "f", "o", "r", " ", "u", "s", " ", "w", "o", "r",
     "k", "s", " ", "f", "l", "a", "w", "l", "e", "s", "s", "l", "y", ".", " ", "W",
     "i", "l", "l", " ", "d", "e", "f", "i", "n", "i", "t", "e", "l", "y", " ", "w",
     "o", "r", "k", " ", "w", "i", "t", "h", " ", "h", "i", "m", " ", "a", "g", "a",
     "i", "n", " ", "o", "n", " ", "f", "u", "t", "u", "r", "e", " ", "p", "r", "o",
     "j", "e", "c", "t", "s", "." >>

\* The default reviews of loadReviews
SeedReviews ==
  << [id |-> 1, name |-> Seed1Name, role |-> Seed1Role, rating |-> 5,
      text |-> Seed1Text, date |-> "2024-12-15T10:30:00.000Z"],
     [id |-> 2, name |-> Seed2Name, role |-> Seed2Role, rating |-> 5,
      text |-> Seed2Text, date |-> "2024-11-20T14:45:00.000Z"],
     [id |-> 3, name |-> Seed3Name, role |-> Seed3Role, rating |-> 4,
      text |-> Seed3Text, date |-> "2024-10-08T09:15:00.000Z"] >>

\* localStorage.getItem of a key never written
NullItem == [kind |-> "null", reviews |-> << >>]

\* A stored string that is not JSON text
MalformedItem == [kind |-> "malformed", reviews |-> << >>]

\* JSON.stringify of an array of reviews: ids and ratings are finite integers
\* and the other fields strings, so the text denotes the same array
JSONStringify(reviews) == [kind |-> "array", reviews |-> reviews]

\* JSON.parse(localStorage.getItem('portfolio_reviews') || '[]'):
\* the array, or threw for a SyntaxError
ParseStored(item) ==
  CASE item.kind = "null"      -> [threw |-> FALSE, reviews |-> << >>]
    [] item.kind = "array"     -> [threw |-> FALSE, reviews |-> item.reviews]
    [] item.kind = "malformed" -> [threw |-> TRUE,  reviews |-> << >>]

----------------------------------------------------------------------------
(* The handlers, as functions of the page's state w *)

\* The theme of a page whose HTML gives the html element data-theme html
\* ("none": no such attribute), before any script and with no item 'theme'
NoTheme(html) == [html |-> html, attr |-> html, stored |-> "none", listeners |-> 0]

\* The labels of the contact form's submit button
SendLabel    == "Send Message"
SendingLabel == "<i class=\"fas fa-spinner fa-spin\"></i> Sending..."

\* The contact form before any script
NoContact ==
  [listeners |-> 0, label |-> SendLabel, disabled |-> FALSE, inflight |-> << >>,
   posts |-> 0]

\* The mobile menu before any script
NoMenu == [active |-> FALSE, listeners |-> 0]

World ==
  [store |-> store, cards |-> cards, ratingValue |-> ratingValue,
   activeStars |-> activeStars, hoverStars |-> hoverStars,
   starListeners |-> starListeners, submitListeners |-> submitListeners,
   modalActive |-> modalActive, bodyOverflow |-> bodyOverflow,
   notifs |-> notifs, notifIds |-> notifIds, timers |-> timers, created |-> created,
   theme |-> theme, contact |-> contact, menu |-> menu,
   accepted |-> accepted,
   writes |-> 0,        \* localStorage.setItem calls of the event being dispatched
   loadCalls |-> 0,     \* loadReviews calls of the event being dispatched
   threw |-> FALSE]     \* the running listener has thrown

\* A mutant of showNotification: the notification in the document is left there
showNotificationKeeps(w, message, type) ==
  [w EXCEPT !.notifs = Append(@, [message |-> message, type |-> type]),
            !.notifIds = Append(@, w.created + 1),
            !.timers = @ \cup {[fires |-> "expire", nid |-> w.created + 1]},
            !.created = @ + 1]

\* showNotification: the first .notification of the document is removed and
\* the new one appended to the body
showNotification(w, message, type) ==
  [w EXCEPT !.notifs =
     Append(IF @ = << >> THEN @ ELSE Tail(@), [message |-> message, type |-> type]),
            !.notifIds = Append(IF @ = << >> THEN @ ELSE Tail(@), w.created + 1),
            !.timers = @ \cup {[fires |-> "expire", nid |-> w.created + 1]},
            !.created = @ + 1]

\* A mutant of StarColours: i <= review.rating, one star too many
StarColoursInclusive(rating) ==
  [i \in 1..5 |-> IF i - 1 <= rating THEN "#ffc107" ELSE "rgba(255,255,255,0.2)"]

\* The colours of the five star glyphs of a card, i < review.rating filled
StarColours(rating) ==
  [i \in 1..5 |-> IF i - 1 < rating THEN "#ffc107" ELSE "rgba(255,255,255,0.2)"]

\* The card element addReviewToUI builds, as the HTML its innerHTML is
\* assigned: what the template interpolates into the avatar, name and role
\* elements and into the quoted text paragraph, and the five star colours
ReviewCard(review, animate) ==
  [avatar |-> ToUpperCase(CharAt0(review.name)),
   name   |-> review.name,
   role   |-> review.role,
   text   |-> <<"\"">> \o review.text \o <<"\"">>,
   stars  |-> StarColours(review.rating),
   date   |-> review.date,
   new    |-> animate,
   of     |-> review.id]      \* history: the review the card was built from

\* The card as the HTML parser builds it from that innerHTML: the text of
\* each of the four elements, and whether any of them holds markup that the
\* template did not write
Rendered(card) ==
  LET avatar == ParseFragment(card.avatar)
      name   == ParseFragment(card.name)
      role   == ParseFragment(card.role)
      text   == ParseFragment(card.text)
  IN [avatar |-> avatar.text, name |-> name.text, role |-> role.text,
      text |-> text.text,
      markup |-> avatar.markup \/ name.markup \/ role.markup \/ text.markup]

\* reviewsContainer.insertBefore(reviewCard, reviewsContainer.firstChild)
addReviewToUI(w, review, animate) ==
  [w EXCEPT !.cards = << ReviewCard(review, animate) >> \o @]

\* A mutant of Truncate: the collection is written back whole
TruncateNever(reviews) == reviews

\* A mutant of Truncate: reviews.slice(-50), the last 50 of the array
TruncateKeepsTail(reviews) ==
  IF Len(reviews) > MaxStored
  THEN SubSeq(reviews, Len(reviews) - MaxStored + 1, Len(reviews))
  ELSE reviews

\* reviews.slice(0, 50) when there are more than 50
Truncate(reviews) ==
  IF Len(reviews) > MaxStored THEN SubSeq(reviews, 1, MaxStored) ELSE reviews

\* A mutant of saveReview: the item is written without the collection it held
saveReviewOverwrites(w, review) ==
  [w EXCEPT !.store = JSONStringify(<< review >>), !.writes = @ + 1]

saveReview(w, review) ==
  LET parsed == ParseStored(w.store)
  IN IF parsed.threw THEN [w EXCEPT !.threw = TRUE]
     ELSE [w EXCEPT !.store = JSONStringify(Truncate(<< review >> \o parsed.reviews)),
                    !.writes = @ + 1]

\* reviews.forEach(review => addReviewToUI(review, false))
RECURSIVE RenderAll(_, _)
RenderAll(w, reviews) ==
  IF reviews = << >> THEN w
  ELSE RenderAll(addReviewToUI(w, Head(reviews), FALSE), Tail(reviews))

\* A mutant of loadReviews: the collection is written back on every load
loadReviewsAlwaysWrites(w) ==
  LET called  == [w EXCEPT !.loadCalls = @ + 1]
      parsed  == ParseStored(w.store)
      reviews == IF Len(parsed.reviews) = 0 THEN SeedReviews ELSE parsed.reviews
  IN IF parsed.threw THEN [called EXCEPT !.threw = TRUE]
     ELSE RenderAll([called EXCEPT !.store = JSONStringify(reviews), !.writes = @ + 1],
                    reviews)

\* A mutant of loadReviews: the seeds are stored whatever the item holds
loadReviewsReseeds(w) ==
  LET called == [w EXCEPT !.loadCalls = @ + 1]
      parsed == ParseStored(w.store)
  IN IF parsed.threw THEN [called EXCEPT !.threw = TRUE]
     ELSE RenderAll([called EXCEPT !.store = JSONStringify(SeedReviews), !.writes = @ + 1],
                    SeedReviews)

loadReviews(w) ==
  LET called == [w EXCEPT !.loadCalls = @ + 1]
      parsed == ParseStored(w.store)
  IN IF parsed.threw THEN [called EXCEPT !.threw = TRUE]
     ELSE IF Len(parsed.reviews) = 0
          THEN RenderAll([called EXCEPT !.store = JSONStringify(SeedReviews),
                                        !.writes = @ + 1],
                         SeedReviews)
          ELSE RenderAll(called, parsed.reviews)

\* One run of initReviewSystem.  The star (and modal) listeners are installed
\* before loadReviews is called and the submit listener after it, so an
\* exception of loadReviews leaves the form without this submit listener.
initReviewSystem(w) ==
  LET installed == [w EXCEPT !.starListeners = @ + 1]
      loaded    == loadReviews(installed)
  IN IF loaded.threw THEN loaded
     ELSE [loaded EXCEPT !.submitListeners = @ + 1]

\* The document as the browser builds it for a page view, before any script
FreshPage(w) ==
  [w EXCEPT !.cards = << >>, !.ratingValue = "0", !.activeStars = {},
            !.hoverStars = {}, !.starListeners = 0, !.submitListeners = 0,
            !.modalActive = FALSE, !.bodyOverflow = "", !.notifs = << >>,
            !.notifIds = << >>, !.timers = {},
            !.theme = [@ EXCEPT !.attr = w.theme.html, !.listeners = 0],
            !.contact = NoContact, !.menu = NoMenu]

\* The dispatch of DOMContentLoaded, as far as the review widget goes: the
\* listener of line 854 is initReviewSystem itself and the listener of line
\* 1268 ends by calling it (line 1292; the init functions it calls before are
\* taken to return).  An exception ends the listener it escapes from, not the
\* dispatch.
DOMContentLoaded(w) ==
  LET first  == initReviewSystem(FreshPage(w))
      second == initReviewSystem([first EXCEPT !.threw = FALSE])
  IN [second EXCEPT !.threw = first.threw \/ second.threw]

\* A mutant of RatingUnset: no rating is taken for "no star selected"
RatingUnsetNever(rating) == FALSE

\* rating === 0
RatingUnset(rating) == rating = 0

\* A mutant of OrClient: the role is stored as it is
OrClientNever(role) == role

\* escapeHTML(role) || 'Client': the empty string is falsy
OrClient(role) == IF role = << >> THEN Client ELSE role

\* The submit listener of #review-form.  form holds the values of
\* reviewer-name, reviewer-role and review-text, t is what Date.now() returns.
SubmitListener(w, form, t) ==
  LET name   == Trim(form.name)
      role   == Trim(form.role)
      rating == ParseInt(w.ratingValue)
      text   == Trim(form.text)
      review == [id     |-> t,
                 name   |-> escapeHTML(name),
                 role   |-> OrClient(escapeHTML(role)),
                 rating |-> rating,
                 text   |-> escapeHTML(text),
                 date   |-> ISOString(t)]
      saved  == saveReview([w EXCEPT !.accepted =
                                       Append(@, [review |-> review, form |-> form])],
                           review)
      shown  == addReviewToUI(saved, review, TRUE)
      reset  == [shown EXCEPT !.ratingValue = "0", !.activeStars = {}]
      closed == [reset EXCEPT !.modalActive = FALSE, !.bodyOverflow = ""]
  IN IF RatingUnset(rating) THEN showNotification(w, RejectMessage, "error")
     ELSE IF saved.threw THEN saved
     ELSE showNotification(closed, ThanksMessage, "success")

\* The submit event reaches every listener installed on the form, in the
\* order they were added; what one listener throws is not seen by the next
RECURSIVE DispatchSubmit(_, _, _, _)
DispatchSubmit(w, form, t, n) ==
  IF n = 0 THEN w
  ELSE LET after == SubmitListener([w EXCEPT !.threw = FALSE], form, t)
       IN DispatchSubmit([after EXCEPT !.threw = w.threw \/ after.threw], form, t, n - 1)

\* A mutant of StarClickListener: the stars after the clicked one keep 'active'
StarClickListenerOnlyAdds(w, index) ==
  LET rating == <<"1", "2", "3", "4", "5">>[index + 1]
  IN [w EXCEPT !.ratingValue = rating,
               !.activeStars = @ \cup {i \in 0..4 : i < ParseInt(rating)}]

\* The click listener of star index (0..4), whose data-rating is index + 1
StarClickListener(w, index) ==
  LET rating == <<"1", "2", "3", "4", "5">>[index + 1]
  IN [w EXCEPT !.ratingValue = rating,
               !.activeStars = {i \in 0..4 : i < ParseInt(rating)}]

\* The mouseenter listener of star index
StarEnterListener(w, index) ==
  [w EXCEPT !.hoverStars = {i \in 0..4 : i <= index}]

\* The mouseleave listener of #star-rating
StarLeaveListener(w) ==
  [w EXCEPT !.hoverStars = {},
            !.activeStars = @ \cup {i \in 0..4 : i < ParseInt(w.ratingValue)}]

\* notification.remove() for the notification numbered nid: nothing happens
\* when it is not in the document
RemoveNotification(w, nid) ==
  LET keep == { i \in DOMAIN w.notifIds : w.notifIds[i] # nid }
      Kept(s) == [i \in 1..Cardinality(keep) |->
                    s[CHOOSE j \in keep : Cardinality({k \in keep : k <= j}) = i]]
  IN [w EXCEPT !.notifs = Kept(w.notifs), !.notifIds = Kept(w.notifIds)]

\* A mutant of ExpireListener: the notification is not removed
ExpireListenerForgets(w, nid) ==
  [w EXCEPT !.timers = @ \ {[fires |-> "expire", nid |-> nid]}]

\* The callback of the 5 s timer of notification nid (lines 1617-1622): if
\* the notification is still in the document it is slid out and its
\* removal set 300 ms ahead
ExpireListener(w, nid) ==
  [w EXCEPT !.timers =
     (@ \ {[fires |-> "expire", nid |-> nid]})
        \cup (IF \E i \in DOMAIN w.notifIds : w.notifIds[i] = nid
              THEN {[fires |-> "remove", nid |-> nid]} ELSE {})]

\* The callback of a 300 ms timer: notification.remove()
RemoveListener(w, nid) ==
  RemoveNotification([w EXCEPT !.timers = @ \ {[fires |-> "remove", nid |-> nid]}], nid)

\* The click listener of the notification's close button (lines 1612-1615)
CloseListener(w, nid) ==
  [w EXCEPT !.timers = @ \cup {[fires |-> "remove", nid |-> nid]}]

----------------------------------------------------------------------------
(* The rest of the page: preloader, mobile menu, theme toggle, contact form *)

\* initPreloader: a listener of the window's load event is added and the 3 s
\* fallback timer set.  The load event still to come is kept with the timers.
initPreloader(w) ==
  [w EXCEPT !.timers = @ \cup {[fires |-> "load", nid |-> 0],
                               [fires |-> "fallback", nid |-> 0]}]

\* initNavigation, as far as the mobile menu goes: one more click listener on
\* #mobile-menu-btn, on the overlay it creates and on every nav link
initNavigation(w) ==
  [w EXCEPT !.menu.listeners = @ + 1]

\* initThemeToggle: the saved theme, or 'dark' when the system prefers it, is
\* applied, and a click listener added to #theme-toggle
initThemeToggle(w, prefersDark) ==
  [w EXCEPT !.theme.attr = IF w.theme.stored # "none" THEN w.theme.stored
                           ELSE IF prefersDark THEN "dark" ELSE @,
            !.theme.listeners = @ + 1]

\* initContactForm: one more submit listener on #contact-form
initContactForm(w) ==
  [w EXCEPT !.contact.listeners = @ + 1]

\* What both DOMContentLoaded listeners of lines 15 and 1268 call before the
\* review widget
SiteInit(w, prefersDark) ==
  initContactForm(initThemeToggle(initNavigation(initPreloader(w)), prefersDark))

\* The dispatch of DOMContentLoaded to its listeners in the order they were
\* added: the listener of line 15, initReviewSystem (line 854) and the
\* listener of line 1268, which ends with initReviewSystem
DocumentLoaded(w, prefersDark) ==
  LET first  == initReviewSystem(SiteInit(FreshPage(w), prefersDark))
      second == initReviewSystem(SiteInit([first EXCEPT !.threw = FALSE], prefersDark))
  IN [second EXCEPT !.threw = first.threw \/ second.threw]

\* The listener of the window's load event (lines 1301-1307): the preloader
\* is to be hidden 500 ms later
WindowLoadListener(w) ==
  [w EXCEPT !.timers = (@ \ {[fires |-> "load", nid |-> 0]})
                          \cup {[fires |-> "hide", nid |-> 0]}]

\* The callback of the 500 ms timer ("hide") or of the 3 s fallback timer
\* ("fallback") of the preloader: it is hidden and the body made to scroll
PreloaderTimerListener(w, which) ==
  [w EXCEPT !.timers = @ \ {[fires |-> which, nid |-> 0]},
            !.bodyOverflow = "visible"]

\* The click listener of #theme-toggle
ThemeClickListener(w) ==
  LET newTheme == IF w.theme.attr = "dark" THEN "light" ELSE "dark"
  IN [w EXCEPT !.theme.attr = newTheme, !.theme.stored = newTheme]

\* The click reaches every listener installed on the button
RECURSIVE DispatchThemeClick(_, _)
DispatchThemeClick(w, n) ==
  IF n = 0 THEN w ELSE DispatchThemeClick(ThemeClickListener(w), n - 1)

\* The notifications of the contact form
MissingMessage == "Please fill in all required fields."
EmailMessage   == "Please enter a valid email address."
SentMessage    == "Message sent successfully! I'll get back to you soon."
FailedMessage  == "Oops! Something went wrong. Please try again or email me directly."

\* [^\s@]: neither white space nor '@'
EmailChar(c) == c \notin WhiteSpace /\ c # "@"

\* isValidEmail: /^[^\s@]+@[^\s@]+\.[^\s@]+$/ matches the whole string: one
\* '@', not first, no white space, and after the '@' a '.' with at least one
\* character on each side of it
isValidEmail(email) ==
  \E a \in DOMAIN email :
     /\ email[a] = "@"
     /\ a > 1
     /\ \A i \in DOMAIN email : i # a => EmailChar(email[i])
     /\ \E d \in DOMAIN email : a + 1 < d /\ d < Len(email) /\ email[d] = "."

\* The submit listener of #contact-form up to its await (lines 1488-1519):
\* data is what FormData reads from the fields.  A submission that passes
\* the validation puts the button in its loading state, remembering the
\* label it had, and sends the POST.
ContactSubmitListener(w, data) ==
  IF data.name = << >> \/ data.email = << >> \/ data.message = << >>
  THEN showNotification(w, MissingMessage, "error")
  ELSE IF ~isValidEmail(data.email)
  THEN showNotification(w, EmailMessage, "error")
  ELSE [w EXCEPT !.contact.inflight = Append(@, [originalText |-> w.contact.label]),
                 !.contact.label = SendingLabel,
                 !.contact.disabled = TRUE,
                 !.contact.posts = @ + 1]

\* The submit event reaches every listener installed on the form
RECURSIVE DispatchContactSubmit(_, _, _)
DispatchContactSubmit(w, data, n) ==
  IF n = 0 THEN w
  ELSE DispatchContactSubmit(ContactSubmitListener(w, data), data, n - 1)

\* The rest of the listener that sent request k, once the request has
\* settled (lines 1521-1534): ok is response.ok, and a rejected fetch or a
\* response that is not ok ends in the catch block.  The finally block puts
\* back the label this listener remembered and enables the button.
ContactSettleListener(w, k, ok) ==
  LET request  == w.contact.inflight[k]
      notified == showNotification(w, IF ok THEN SentMessage ELSE FailedMessage,
                                      IF ok THEN "success" ELSE "error")
  IN [notified EXCEPT
        !.contact.inflight = SubSeq(@, 1, k - 1) \o SubSeq(@, k + 1, Len(@)),
        !.contact.label = request.originalText,
        !.contact.disabled = FALSE]

\* The click listener of #open-review-modal (lines 1953-1959)
OpenModalListener(w) ==
  [w EXCEPT !.modalActive = TRUE, !.bodyOverflow = "hidden"]

\* The click listener of #close-review-modal, and what the backdrop click
\* and Escape listeners do when they close the modal (lines 1962-1983)
CloseModalListener(w) ==
  [w EXCEPT !.modalActive = FALSE, !.bodyOverflow = ""]

\* The click listener of #mobile-menu-btn (lines 1340-1345)
MenuClickListener(w) ==
  [w EXCEPT !.menu.active = ~@,
            !.bodyOverflow = IF ~w.menu.active THEN "hidden" ELSE "visible"]

\* The click reaches every listener installed on the button
RECURSIVE DispatchMenuClick(_, _)
DispatchMenuClick(w, n) ==
  IF n = 0 THEN w ELSE DispatchMenuClick(MenuClickListener(w), n - 1)

\* The click listener of the menu overlay and of every nav link (lines
\* 1348-1366): the menu is closed
MenuCloseListener(w) ==
  [w EXCEPT !.menu.active = FALSE, !.bodyOverflow = "visible"]

----------------------------------------------------------------------------
(* Events *)

Commit(w) ==
  /\ store' = w.store
  /\ cards' = w.cards
  /\ ratingValue' = w.ratingValue
  /\ activeStars' = w.activeStars
  /\ hoverStars' = w.hoverStars
  /\ starListeners' = w.starListeners
  /\ submitListeners' = w.submitListeners
  /\ modalActive' = w.modalActive
  /\ bodyOverflow' = w.bodyOverflow
  /\ notifs' = w.notifs
  /\ notifIds' = w.notifIds
  /\ timers' = w.timers
  /\ created' = w.created
  /\ theme' = w.theme
  /\ contact' = w.contact
  /\ menu' = w.menu
  /\ accepted' = w.accepted

Event(op, form, rating, t, w) ==
  [op |-> op, name |-> form.name, role |-> form.role, text |-> form.text,
   rating |-> rating, t |-> t, writes |-> w.writes, loadCalls |-> w.loadCalls,
   threw |-> w.threw]

NoForm == [name |-> Str0, role |-> Str0, text |-> Str0]

\* A page view: the document is built anew and DOMContentLoaded dispatched
PageLoad ==
  \E w \in { DOMContentLoaded(World) } :
     /\ Commit(w)
     /\ pageError' = w.threw
     /\ last' = Event("load", NoForm, 0, now, w)
     /\ loads' = loads + 1
     /\ UNCHANGED << now, submits, other, pending >>

\* A click on star index.  Every listener installed on the star runs; they
\* all make the same assignments.
StarClick(index) ==
  /\ starListeners > 0
  /\ \E w \in { StarClickListener(World, index) } :
        /\ Commit(w)
        /\ last' = Event("click", NoForm, 0, now, w)
  /\ UNCHANGED << pageError, now, loads, submits, other, pending >>

StarMouseEnter(index) ==
  /\ starListeners > 0
  /\ \E w \in { StarEnterListener(World, index) } :
        /\ Commit(w)
        /\ last' = Event("enter", NoForm, 0, now, w)
  /\ UNCHANGED << pageError, now, loads, submits, other, pending >>

StarMouseLeave ==
  /\ starListeners > 0
  /\ \E w \in { StarLeaveListener(World) } :
        /\ Commit(w)
        /\ last' = Event("leave", NoForm, 0, now, w)
  /\ UNCHANGED << pageError, now, loads, submits, other, pending >>

\* A submit event on #review-form with the given field values, at a moment
\* when Date.now() returns t.  With no submit listener installed the event is
\* not the script's to handle.
SubmitForm(name, role, text, t) ==
  /\ submitListeners > 0
  /\ LET form == [name |-> name, role |-> role, text |-> text]
     IN \E w \in { DispatchSubmit(World, form, t, submitListeners) } :
          /\ Commit(w)
          /\ last' = Event("submit", form, ParseInt(ratingValue), t, w)
  /\ now' = t
  /\ submits' = submits + 1
  /\ UNCHANGED << pageError, loads, other, pending >>

\* The 5 s timer of notification nid fires
TimerExpires(nid) ==
  /\ [fires |-> "expire", nid |-> nid] \in timers
  /\ \E w \in { ExpireListener(World, nid) } : Commit(w)
  /\ UNCHANGED << pageError, now, last, loads, submits, other, pending >>

\* A 300 ms timer of notification nid fires
TimerRemoves(nid) ==
  /\ [fires |-> "remove", nid |-> nid] \in timers
  /\ \E w \in { RemoveListener(World, nid) } : Commit(w)
  /\ UNCHANGED << pageError, now, last, loads, submits, other, pending >>

\* A click on the close button of notification nid, which is in the document
CloseClick(nid) ==
  /\ \E i \in DOMAIN notifIds : notifIds[i] = nid
  /\ \E w \in { CloseListener(World, nid) } :
        /\ Commit(w)
        /\ last' = Event("close", NoForm, 0, now, w)
  /\ UNCHANGED << pageError, now, loads, submits, other, pending >>

\* A page view, every part of the page included.  prefersDark is what the
\* media query (prefers-color-scheme: dark) matches.
SitePageLoad(prefersDark) ==
  \E w \in { DocumentLoaded(World, prefersDark) } :
     /\ Commit(w)
     /\ pageError' = w.threw
     /\ last' = Event("load", NoForm, 0, now, w)
     /\ loads' = loads + 1
     /\ UNCHANGED << now, submits, other, pending >>

\* The window's load event
WindowLoad ==
  /\ [fires |-> "load", nid |-> 0] \in timers
  /\ \E w \in { WindowLoadListener(World) } : Commit(w)
  /\ UNCHANGED << pageError, now, last, loads, submits, other, pending >>

\* A timer of the preloader fires
PreloaderTimer(which) ==
  /\ [fires |-> which, nid |-> 0] \in timers
  /\ \E w \in { PreloaderTimerListener(World, which) } : Commit(w)
  /\ UNCHANGED << pageError, now, last, loads, submits, other, pending >>

\* A click on #theme-toggle
ThemeClick ==
  /\ theme.listeners > 0
  /\ \E w \in { DispatchThemeClick(World, theme.listeners) } :
        /\ Commit(w)
        /\ last' = Event("theme", NoForm, 0, now, w)
  /\ UNCHANGED << pageError, now, loads, submits, other, pending >>

\* A submit event on #contact-form with the given field values.  A disabled
\* submit button lets no submit event through.
ContactSubmit(data) ==
  /\ contact.listeners > 0
  /\ ~contact.disabled
  /\ \E w \in { DispatchContactSubmit(World, data, contact.listeners) } :
        /\ Commit(w)
        /\ last' = Event("contact", [name |-> data.name, role |-> data.email,
                                     text |-> data.message], 0, now, w)
  /\ submits' = submits + 1
  /\ UNCHANGED << pageError, now, loads, other, pending >>

\* Request k settles: with a response that is ok, with one that is not, or
\* with a network failure
ContactSettle(k, outcome) ==
  /\ k \in DOMAIN contact.inflight
  /\ \E w \in { ContactSettleListener(World, k, outcome = "ok") } :
        /\ Commit(w)
        /\ last' = Event(outcome, NoForm, 0, now, w)
  /\ UNCHANGED << pageError, now, loads, submits, other, pending >>

\* A click on #open-review-modal
OpenModal ==
  /\ starListeners > 0
  /\ \E w \in { OpenModalListener(World) } :
        /\ Commit(w)
        /\ last' = Event("open", NoForm, 0, now, w)
  /\ UNCHANGED << pageError, now, loads, submits, other, pending >>

\* The open modal is closed: by its close button, a click on its backdrop or
\* the Escape key
CloseModal ==
  /\ starListeners > 0
  /\ modalActive
  /\ \E w \in { CloseModalListener(World) } :
        /\ Commit(w)
        /\ last' = Event("close modal", NoForm, 0, now, w)
  /\ UNCHANGED << pageError, now, loads, submits, other, pending >>

\* A click on #mobile-menu-btn
MenuClick ==
  /\ menu.listeners > 0
  /\ \E w \in { DispatchMenuClick(World, menu.listeners) } :
        /\ Commit(w)
        /\ last' = Event("menu", NoForm, 0, now, w)
  /\ UNCHANGED << pageError, now, loads, submits, other, pending >>

\* A click on a nav link or on the menu overlay
NavLinkClick ==
  /\ menu.listeners > 0
  /\ \E w \in { MenuCloseListener(World) } :
        /\ Commit(w)
        /\ last' = Event("nav", NoForm, 0, now, w)
  /\ UNCHANGED << pageError, now, loads, submits, other, pending >>

----------------------------------------------------------------------------
(* Field values and initial states *)

Jo    == <<"J", "o">>
Great == <<"G", "r", "e", "a", "t", "!">>

\* A review as an earlier submission of Jo at time t left it
Filler(t) ==
  [id |-> t, name |-> Jo, role |-> Client, rating |-> 4, text |-> Great,
   date |-> ISOString(t)]

SeedCount == Len(SeedReviews)

\* A collection one short of the cap: the seeds and the submissions made at
\* times SeedCount + 1 .. MaxStored - 1, newest first
AlmostFull ==
  [k \in 1..(MaxStored - 1) |->
     IF k <= MaxStored - 1 - SeedCount THEN Filler(MaxStored - k)
     ELSE SeedReviews[k - (MaxStored - 1 - SeedCount)]]

\* The clock reading before the first event: later than every stored id
ClockStart == MaxStored

\* The tabs of the origin: this one, whose document is the variables above,
\* and a second one
Tabs == {"this", "other"}

\* A document no script has run in
BlankDocument ==
  [cards |-> << >>, ratingValue |-> "0", activeStars |-> {}, hoverStars |-> {},
   starListeners |-> 0, submitListeners |-> 0, modalActive |-> FALSE,
   bodyOverflow |-> "", notifs |-> << >>, notifIds |-> << >>, timers |-> {}]

\* No submit listener of the tab is between its getItem and its setItem
Idle == [busy |-> FALSE, item |-> NullItem, t |-> 0]

\* The state before the first page view, the theme apart
InitWidget ==
  /\ cards = << >>
  /\ ratingValue = "0"
  /\ activeStars = {}
  /\ hoverStars = {}
  /\ starListeners = 0
  /\ submitListeners = 0
  /\ modalActive = FALSE
  /\ bodyOverflow = ""
  /\ notifs = << >>
  /\ notifIds = << >>
  /\ timers = {}
  /\ created = 0
  /\ pageError = FALSE
  /\ now = ClockStart
  /\ accepted = << >>
  /\ last = [op |-> "none", name |-> Str0, role |-> Str0, text |-> Str0,
             rating |-> 0, t |-> ClockStart, writes |-> 0, loadCalls |-> 0,
             threw |-> FALSE]
  /\ loads = 0
  /\ submits = 0
  /\ contact = NoContact
  /\ menu = NoMenu
  /\ other = BlankDocument
  /\ pending = [tab \in Tabs |-> Idle]

\* The state before the first page view of a page whose HTML sets no theme
InitPage ==
  /\ InitWidget
  /\ theme = NoTheme("none")

Load ==
  /\ loads < MaxLoads
  /\ PageLoad

----------------------------------------------------------------------------
(* Spec: page views, star clicks and submissions of one fixed text, over    *)
(* every kind of stored item.  Each submission is made one millisecond      *)
(* after the previous event.                                               *)

InitialStores ==
  { NullItem, JSONStringify(<< >>), MalformedItem, JSONStringify(AlmostFull) }

Init ==
  /\ store \in InitialStores
  /\ InitPage

Click ==
  \E index \in 0..4 : StarClick(index)

Submit ==
  /\ submits < MaxSubmits
  /\ SubmitForm(Jo, Str0, Great, now + 1)

Next ==
  \/ Load
  \/ Click
  \/ Submit

Spec == Init /\ [][Next]_vars

----------------------------------------------------------------------------
(* SpecCap: one tab filling the collection past the cap, one accepted       *)
(* submission per millisecond                                              *)

\* accepted submissions in one behaviour of SpecCap
MaxCapSubmits == 52

InitCap ==
  /\ store \in { NullItem, JSONStringify(<< >>) }
  /\ InitPage

CapClick ==
  /\ ratingValue = "0"
  /\ StarClick(3)

CapSubmit ==
  /\ ratingValue # "0"
  /\ Len(accepted) < MaxCapSubmits
  /\ SubmitForm(Jo, Str0, Great, now + 1)

NextCap ==
  \/ Load
  \/ CapClick
  \/ CapSubmit

SpecCap == InitCap /\ [][NextCap]_vars

----------------------------------------------------------------------------
(* SpecFields: one submission whose name, role or text is any string over   *)
(* FieldAlphabet of at most MaxLen characters, followed by page views       *)

\* length of the varied field
MaxLen == 3

FieldAlphabet == {"<", ">", "&", "l", "t", " "}

Strings(n) == UNION { [1..k -> FieldAlphabet] : k \in 0..n }

DefaultForm == [name |-> Jo, role |-> Str0, text |-> Great]

FieldForms ==
  { [DefaultForm EXCEPT ![f] = s] : f \in {"name", "role", "text"}, s \in Strings(MaxLen) }

InitFields ==
  /\ store = NullItem
  /\ InitPage

FieldsClick ==
  /\ submits = 0
  /\ \E index \in {0, 4} : StarClick(index)

FieldsSubmit ==
  /\ submits = 0
  /\ \E form \in FieldForms : SubmitForm(form.name, form.role, form.text, now + 1)

NextFields ==
  \/ Load
  \/ FieldsClick
  \/ FieldsSubmit

SpecFields == InitFields /\ [][NextFields]_vars

----------------------------------------------------------------------------
(* SpecStars: every event of the star control, with submissions and page    *)
(* views                                                                   *)

InitStars ==
  /\ store = NullItem
  /\ InitPage

\* the pointer enters the first, the middle or the last star
Enter ==
  \E index \in {0, 2, 4} : StarMouseEnter(index)

Leave == StarMouseLeave

NextStars ==
  \/ Load
  \/ Click
  \/ Enter
  \/ Leave
  \/ Submit

SpecStars == InitStars /\ [][NextStars]_vars

----------------------------------------------------------------------------
(* SpecClock: submissions at any reading of Date.now().  The reading is the *)
(* wall clock's: it may be the millisecond of the previous reading, and a   *)
(* clock adjustment may set it back.                                       *)

ClockReadings == { now - 1, now, now + 1 }

ClockClick == StarClick(4)

ClockSubmit ==
  /\ submits < MaxSubmits
  /\ \E t \in ClockReadings : SubmitForm(Jo, Str0, Great, t)

NextClock ==
  \/ Load
  \/ ClockClick
  \/ ClockSubmit

SpecClock == InitStars /\ [][NextClock]_vars

----------------------------------------------------------------------------
(* Two tabs of the same origin.  Each tab has its own document and runs its *)
(* own listeners to completion, but localStorage is shared and nothing      *)
(* holds it between the getItem and the setItem of saveReview (lines 2085   *)
(* and 2091), so a listener of the other tab may run between the two.       *)

\* The page's state as the handlers of the tab see it
WorldOf(tab) ==
  IF tab = "this" THEN World
  ELSE [store |-> store, cards |-> other.cards, ratingValue |-> other.ratingValue,
        activeStars |-> other.activeStars, hoverStars |-> other.hoverStars,
        starListeners |-> other.starListeners,
        submitListeners |-> other.submitListeners,
        modalActive |-> other.modalActive, bodyOverflow |-> other.bodyOverflow,
        notifs |-> other.notifs, notifIds |-> other.notifIds,
        timers |-> other.timers, created |-> created,
        theme |-> theme, contact |-> contact, menu |-> menu, accepted |-> accepted,
        writes |-> 0, loadCalls |-> 0, threw |-> FALSE]

DocumentOf(w) ==
  [cards |-> w.cards, ratingValue |-> w.ratingValue, activeStars |-> w.activeStars,
   hoverStars |-> w.hoverStars, starListeners |-> w.starListeners,
   submitListeners |-> w.submitListeners, modalActive |-> w.modalActive,
   bodyOverflow |-> w.bodyOverflow, notifs |-> w.notifs, notifIds |-> w.notifIds,
   timers |-> w.timers]

CommitTab(tab, w) ==
  IF tab = "this"
  THEN /\ Commit(w)
       /\ UNCHANGED other
  ELSE /\ store' = w.store
       /\ accepted' = w.accepted
       /\ created' = w.created
       /\ other' = DocumentOf(w)
       /\ UNCHANGED << cards, ratingValue, activeStars, hoverStars, starListeners,
                       submitListeners, modalActive, bodyOverflow, notifs, notifIds,
                       timers, theme, contact, menu >>

\* A page view in the tab
TabLoad(tab) ==
  /\ ~pending[tab].busy
  /\ loads < MaxLoads
  /\ \E w \in { DOMContentLoaded(WorldOf(tab)) } :
        /\ CommitTab(tab, w)
        /\ pageError' = IF tab = "this" THEN w.threw ELSE pageError
        /\ last' = Event("load", NoForm, 0, now, w)
  /\ loads' = loads + 1
  /\ UNCHANGED << now, submits, pending >>

\* A click on the last star of the tab's form
TabClick(tab) ==
  /\ ~pending[tab].busy
  /\ WorldOf(tab).starListeners > 0
  /\ WorldOf(tab).ratingValue = "0"
  /\ \E w \in { StarClickListener(WorldOf(tab), 4) } :
        /\ CommitTab(tab, w)
        /\ last' = Event("click", NoForm, 0, now, w)
  /\ UNCHANGED << pageError, now, loads, submits, pending >>

\* A submit event in the tab, with a star selected: the first listener runs
\* as far as localStorage.getItem of saveReview
TabBegin(tab) ==
  /\ ~pending[tab].busy
  /\ submits < MaxSubmits
  /\ WorldOf(tab).submitListeners > 0
  /\ ~RatingUnset(ParseInt(WorldOf(tab).ratingValue))
  /\ pending' = [pending EXCEPT ![tab] = [busy |-> TRUE, item |-> store, t |-> now + 1]]
  /\ now' = now + 1
  /\ submits' = submits + 1
  /\ UNCHANGED << store, cards, ratingValue, activeStars, hoverStars, starListeners,
                  submitListeners, modalActive, bodyOverflow, notifs, notifIds,
                  timers, created, pageError, accepted, last, loads, theme, contact,
                  menu, other >>

\* The rest of that dispatch: the listener goes on with the item it has read
\* and writes the item back, then the other listeners of the form run
TabEnd(tab) ==
  /\ pending[tab].busy
  /\ LET w0 == WorldOf(tab)
     IN \E w \in { DispatchSubmit([w0 EXCEPT !.store = pending[tab].item],
                                  DefaultForm, pending[tab].t, w0.submitListeners) } :
          /\ CommitTab(tab, IF w.writes > 0 THEN w ELSE [w EXCEPT !.store = store])
          /\ last' = Event("submit", DefaultForm, ParseInt(w0.ratingValue),
                           pending[tab].t, w)
  /\ pending' = [pending EXCEPT ![tab] = Idle]
  /\ UNCHANGED << pageError, now, loads, submits >>

----------------------------------------------------------------------------
(* SpecTabs: the two tabs, their listeners interleaved in every way         *)

TabsLoad  == \E tab \in Tabs : TabLoad(tab)

TabsClick == \E tab \in Tabs : TabClick(tab)

TabsBegin == \E tab \in Tabs : TabBegin(tab)

TabsEnd   == \E tab \in Tabs : TabEnd(tab)

NextTabs ==
  \/ TabsLoad
  \/ TabsClick
  \/ TabsBegin
  \/ TabsEnd

SpecTabs == InitStars /\ [][NextTabs]_vars

----------------------------------------------------------------------------
(* SpecSerial: the two tabs, no submit beginning while another is under way *)

SerialBegin ==
  /\ \A tab \in Tabs : ~pending[tab].busy
  /\ TabsBegin

NextSerial ==
  \/ TabsLoad
  \/ TabsClick
  \/ SerialBegin
  \/ TabsEnd

SpecSerial == InitStars /\ [][NextSerial]_vars

----------------------------------------------------------------------------
(* SpecNotify: the notifications of one tab and their timers.  The browser  *)
(* runs the callback of every timer that is due, so each timer action is    *)
(* weakly fair; no user action is.  The timers fire in any order.           *)

\* the notifications one behaviour can create: one per submit listener and
\* submit event
NotifIds == 1..(2 * MaxSubmits)

\* a star is selected for the first submission; the later ones are rejected
NotifyClick ==
  /\ submits = 0
  /\ ratingValue = "0"
  /\ StarClick(4)

Expire == \E nid \in NotifIds : TimerExpires(nid)

Remove == \E nid \in NotifIds : TimerRemoves(nid)

\* a click on a close button; a second click on the same button, while the
\* removal it set is pending, sets a timer whose callback finds nothing to do
Close ==
  \E nid \in NotifIds :
     /\ [fires |-> "remove", nid |-> nid] \notin timers
     /\ CloseClick(nid)

NextNotify ==
  \/ Load
  \/ NotifyClick
  \/ Submit
  \/ Expire
  \/ Remove
  \/ Close

TimersFire ==
  \A nid \in NotifIds : WF_vars(TimerExpires(nid)) /\ WF_vars(TimerRemoves(nid))

SpecNotify == InitStars /\ [][NextNotify]_vars /\ TimersFire

----------------------------------------------------------------------------------------------------------------------------------------
(* SpecSite: the page outside the review panel.  Page views, the load event *)
(* and the preloader's timers, clicks on the theme toggle; the page's HTML  *)
(* may give any data-theme, any theme may have been saved by an earlier     *)
(* visit, and the system may prefer either scheme.                          *)

Themes == {"none", "light", "dark"}

InitSite ==
  /\ store = NullItem
  /\ InitWidget
  /\ \E html \in Themes, saved \in Themes :
        theme = [NoTheme(html) EXCEPT !.stored = saved]

SiteLoad ==
  /\ loads < MaxLoads
  /\ \E prefersDark \in BOOLEAN : SitePageLoad(prefersDark)

PreloaderFires ==
  \E which \in {"hide", "fallback"} : PreloaderTimer(which)

Address == <<"a", "@", "b", ".", "c">>

\* what the email field may hold: nothing, an address, and addresses with no
\* dot after the '@', no '@', a space, two '@', nothing before the '@' and
\* nothing after the dot
Emails ==
  { Str0, Address, <<"a", "@", "b">>, <<"a", "b", ".", "c">>,
    <<"a", " ", "@", "b", ".", "c">>, <<"a", "@", "@", "b", ".", "c">>,
    <<"@", "b", ".", "c">>, <<"a", "@", "b", ".">> }

ContactData ==
  { [name |-> n, email |-> e, message |-> m] :
      n \in {Str0, Jo}, e \in Emails, m \in {Str0, Great} }

SiteContactSubmit ==
  /\ submits < MaxSubmits
  /\ \E data \in ContactData : ContactSubmit(data)

SiteContactSettle ==
  \E k \in 1..(2 * MaxSubmits), outcome \in {"ok", "http error", "network failure"} :
     ContactSettle(k, outcome)

NextSite ==
  \/ SiteLoad
  \/ WindowLoad
  \/ PreloaderFires
  \/ ThemeClick
  \/ SiteContactSubmit
  \/ SiteContactSettle

SpecSite == InitSite /\ [][NextSite]_vars

----------------------------------------------------------------------------
(* SpecModal: the review modal opened and closed, by the user and by an     *)
(* accepted submission, among the load event, the preloader's timers and    *)
(* clicks on the mobile menu button and the nav links                       *)

ModalLoad ==
  /\ loads < MaxLoads
  /\ SitePageLoad(FALSE)

NextModal ==
  \/ ModalLoad
  \/ WindowLoad
  \/ PreloaderFires
  \/ OpenModal
  \/ CloseModal
  \/ MenuClick
  \/ NavLinkClick
  \/ NotifyClick
  \/ Submit

SpecModal == InitStars /\ [][NextModal]_vars

----------------------------------------------------------------------------
(* Properties *)

Min(a, b) == IF a < b THEN a ELSE b

Rejection == [message |-> RejectMessage, type |-> "error"]

NewestAccepted == accepted[Len(accepted)]

\* stored is typed with its markup characters escaped: it holds no '<' or
\* '>' of its own and the HTML parser reads it back as the text typed
IsEscapeOf(stored, typed) ==
  /\ \A i \in DOMAIN stored : stored[i] \notin {"<", ">"}
  /\ ParseFragment(stored) = [text |-> typed, markup |-> FALSE]

\* C1: a submit event dispatched while #rating-value is 0 leaves the item
\* 'portfolio_reviews' as it was, adds no card to the panel, and leaves the
\* notification 'Please select a star rating' on the page.
C1_RejectedSubmit ==
  [][ (submits' = submits + 1 /\ ratingValue = "0")
        => /\ store' = store
           /\ cards' = cards
           /\ accepted' = accepted
           /\ notifs' = << Rejection >> ]_vars

C1_Witness ==
  /\ last.op = "submit"
  /\ last.rating = 0
  /\ accepted = << >>
  /\ cards # << >>
  /\ notifs = << Rejection >>

\* C2: a submit event with a rating in 1..5 writes back the collection C it
\* read with the new review in front: the new review first, then the reviews
\* of C in their order, min(Len(C) + 1, 50) reviews in all.
C2_SubmitPrepends ==
  [][ (submits' = submits + 1 /\ ParseInt(ratingValue) \in 1..5)
        => LET C == ParseStored(store).reviews
               D == store'.reviews
           IN /\ store'.kind = "array"
              /\ Len(accepted') = Len(accepted) + 1
              /\ Len(D) = Min(Len(C) + 1, MaxStored)
              /\ D[1] = accepted'[Len(accepted')].review
              /\ D[1].rating = ParseInt(ratingValue)
              /\ \A i \in 2..Len(D) : D[i] = C[i - 1] ]_vars

C2_Witness ==
  /\ last.op = "submit"
  /\ last.rating \in 1..5
  /\ Len(accepted) = 2
  /\ Len(store.reviews) = MaxStored
  /\ store.reviews[1] = accepted[2].review
  /\ store.reviews[2] = accepted[1].review

\* C3: once 51 submissions have been accepted in a tab that started from an
\* empty store, the stored collection is the 50 latest of them, newest
\* first: the first submission and the seed reviews are gone.
C3_FiftyMostRecent ==
  Len(accepted) = MaxStored + 1 =>
    /\ Len(store.reviews) = MaxStored
    /\ \A i \in 1..MaxStored :
         /\ store.reviews[i] = accepted[MaxStored + 2 - i].review
         /\ store.reviews[i] # accepted[1].review
         /\ \A k \in DOMAIN SeedReviews : store.reviews[i] # SeedReviews[k]

C3_Witness ==
  /\ Len(accepted) = MaxStored + 1
  /\ Len(store.reviews) = MaxStored
  /\ store.reviews[MaxStored] = accepted[2].review

\* C4: starting from an empty store, the stored collection never holds more
\* than 50 reviews.
C4_AtMostFifty ==
  Len(store.reviews) <= MaxStored

C4_Witness ==
  /\ Len(accepted) > MaxStored
  /\ Len(store.reviews) = MaxStored
  /\ loads > 1

\* C5: a page view that finds the item absent or an empty array stores the
\* three seed reviews (ids 1, 2, 3) with one write and shows only them; a
\* page view that finds a non-empty collection leaves the item as it is and
\* writes nothing.
C5_LoadSeedsOnce ==
  [][ (loads' = loads + 1 /\ ~last'.threw)
        => /\ ParseStored(store).reviews = << >>
                => /\ store' = JSONStringify(SeedReviews)
                   /\ [i \in DOMAIN store'.reviews |-> store'.reviews[i].id] = <<1, 2, 3>>
                   /\ \A i \in DOMAIN cards' : cards'[i].of \in {1, 2, 3}
                   /\ last'.writes = 1
           /\ ParseStored(store).reviews # << >>
                => /\ store' = store
                   /\ last'.writes = 0 ]_vars

C5_Witness ==
  /\ last.op = "load"
  /\ loads = 2
  /\ accepted = << >>
  /\ store = JSONStringify(SeedReviews)
  /\ last.writes = 0

\* C6: loading never fails: after a page view, whatever the item held, no
\* exception has escaped, the seed or stored reviews are shown and the
\* submit listener is installed.
C6_LoadNeverFails ==
  loads > 0 => (~pageError /\ submitListeners > 0 /\ cards # << >>)

\* What the card of a review built from form is to display
Shown(form) ==
  [name |-> Trim(form.name),
   role |-> IF Trim(form.role) = << >> THEN Client ELSE Trim(form.role),
   text |-> <<"\"">> \o Trim(form.text) \o <<"\"">>]

\* C7: the fields of a submitted review are stored escaped, and every card
\* built from it, at submission or at a later page view, displays the name,
\* role and text as they were typed (trimmed, 'Client' for a blank role) and
\* holds no markup of the user's.
C7_EscapedRoundTrip ==
  \A k \in DOMAIN accepted :
    /\ IsEscapeOf(accepted[k].review.name, Trim(accepted[k].form.name))
    /\ IsEscapeOf(accepted[k].review.text, Trim(accepted[k].form.text))
    /\ \A i \in DOMAIN cards :
         cards[i].of = accepted[k].review.id =>
           LET r    == Rendered(cards[i])
               want == Shown(accepted[k].form)
           IN /\ ~r.markup
              /\ r.name = want.name
              /\ r.role = want.role
              /\ r.text = want.text

C7_Witness ==
  /\ last.op = "load"
  /\ Len(accepted) = 1
  /\ accepted[1].form.name = <<"<", "l", ">">>
  /\ store.reviews[1].name = <<"&", "l", "t", ";", "l", "&", "g", "t", ";">>
  /\ \E i \in DOMAIN cards :
       /\ cards[i].of = accepted[1].review.id
       /\ Rendered(cards[i]).name = <<"<", "l", ">">>

\* C8: a review submitted with a blank role is stored with the role
\* 'Client', one submitted with any other role with that role trimmed and
\* escaped; the stored rating is the rating selected.
C8_RoleDefault ==
  (last.op = "submit" /\ last.rating \in 1..5) =>
    LET r == store.reviews[1]
    IN /\ r = NewestAccepted.review
       /\ (\A i \in DOMAIN last.role : last.role[i] \in WhiteSpace) => r.role = Client
       /\ (\E i \in DOMAIN last.role : last.role[i] \notin WhiteSpace)
             => IsEscapeOf(r.role, Trim(last.role))
       /\ r.rating = last.rating

C8_Witness ==
  /\ last.op = "submit"
  /\ last.rating = 5
  /\ last.role = <<" ", " ">>
  /\ store.reviews[1].role = Client
  /\ store.reviews[1].rating = 5

\* C9: whatever the clicks, mouse events, submissions and page views, every
\* stored review has a rating from 1 to 5.
C9_RatingInRange ==
  \A i \in DOMAIN store.reviews : store.reviews[i].rating \in 1..5

C9_Witness ==
  /\ last.op = "leave"
  /\ Len(accepted) = 2
  /\ store.reviews[1] = accepted[2].review
  /\ store.reviews[1].rating = 1
  /\ store.reviews[2].rating = 5

\* C10: the ids of the stored reviews are pairwise distinct, and a newly
\* submitted review gets an id greater than the id of every review already
\* stored.
C10_IdsIncrease ==
  [][ /\ \A i, j \in DOMAIN store'.reviews :
           i # j => store'.reviews[i].id # store'.reviews[j].id
      /\ Len(accepted') > Len(accepted)
           => \A i \in DOMAIN store.reviews :
                 accepted'[Len(accepted')].review.id > store.reviews[i].id ]_vars

Range(s) == { s[i] : i \in DOMAIN s }

\* C11: the store is read whole and written whole with no lock: a submit
\* listener writes its own review in front of the collection it read when it
\* began, whatever the other tab has written since, so that of two
\* overlapping submits the later write wins and the other review is lost.
C11_LastWriteWins ==
  [][\A tab \in Tabs :
       (pending[tab].busy /\ ~pending'[tab].busy) =>
          store' = JSONStringify(Truncate(<< accepted'[Len(accepted')].review >>
                                          \o ParseStored(pending[tab].item).reviews))]_vars

\* two submits have overlapped and only the review of the later write is stored
C11_Witness ==
  /\ Len(accepted) = 2
  /\ \A tab \in Tabs : ~pending[tab].busy
  /\ cards # << >> /\ cards[1].new
  /\ other.cards # << >> /\ other.cards[1].new
  /\ accepted[2].review \in Range(store.reviews)
  /\ accepted[1].review \notin Range(store.reviews)

\* C12: a page load that finds reviews in the store leaves the stored
\* collection as it was, and the review accepted last is the first element of
\* the collection that load reads (the first card it builds, which ends at
\* the bottom of the panel).
C12_LoadKeepsStore ==
  [][(loads' = loads + 1 /\ store.kind = "array" /\ store.reviews # << >>) =>
        /\ store' = store
        /\ accepted # << >> =>
              /\ store'.reviews[1] = NewestAccepted.review
              /\ cards'[Len(cards')].of = NewestAccepted.review.id]_vars

\* a page view after an accepted submission has read that review first
C12_Witness ==
  /\ last.op = "load"
  /\ accepted # << >>
  /\ store.kind = "array"
  /\ Len(store.reviews) > SeedCount
  /\ store.reviews[1] = NewestAccepted.review
  /\ cards[Len(cards)].of = NewestAccepted.review.id

\* C13: one page view (one DOMContentLoaded) loads the collection exactly
\* once: loadReviews is called one time.
C13_LoadedOncePerView ==
  last.op = "load" => last.loadCalls = 1

\* C14: in one tab no event updates or deletes a stored review: from one
\* state to the next every stored review keeps its fields and its order
\* relative to the others, at most one review is put in front of them, and a
\* review leaves the collection only from its end, when the collection would
\* exceed 50 (50 newer reviews precede it).
C14_NoUpdateNoDelete ==
  [][(store.kind = "array" /\ store.reviews # << >>) =>
        /\ store'.kind = "array"
        /\ \E k \in {0, 1} :
              /\ Len(store'.reviews) = Min(Len(store.reviews) + k, MaxStored)
              /\ \A i \in 1..(Len(store'.reviews) - k) :
                    store'.reviews[i + k] = store.reviews[i]]_vars

\* a submission has pushed the oldest review out and the other 49 are as they were
C14_Witness ==
  /\ last.op = "submit"
  /\ Len(accepted) = MaxStored - SeedCount + 1
  /\ Len(store.reviews) = MaxStored
  /\ store.reviews[1] = NewestAccepted.review
  /\ store.reviews[MaxStored] = SeedReviews[SeedCount - 1]
  /\ \A i \in 2..(MaxStored - SeedCount + 1) :
        store.reviews[i] = accepted[Len(accepted) - i + 1].review

\* C15: starting from an empty store, the seeds are written at most once:
\* the page view that finds the store empty writes them with one setItem,
\* and once the store holds reviews it never becomes empty again and no
\* later page view writes anything.
C15_SeedsWrittenOnce ==
  [][/\ loads' = loads + 1 =>
          last'.writes = (IF ParseStored(store).reviews = << >> THEN 1 ELSE 0)
     /\ (store.kind = "array" /\ store.reviews # << >>) =>
          (store'.kind = "array" /\ store'.reviews # << >>)]_vars

\* a later page view has found the seeded store and written nothing
C15_Witness ==
  /\ loads = 2
  /\ last.op = "load"
  /\ last.writes = 0
  /\ store.kind = "array"
  /\ \A i \in 1..SeedCount :
        store.reviews[Len(store.reviews) - SeedCount + i] = SeedReviews[i]

\* C16: the avatar of every card built from a submitted review displays the
\* first character of the name as it was typed (trimmed), in upper case,
\* whatever characters the name holds.
C16_AvatarInitial ==
  \A k \in DOMAIN accepted :
    \A i \in DOMAIN cards :
      cards[i].of = accepted[k].review.id =>
        Rendered(cards[i]).avatar = ToUpperCase(CharAt0(Trim(accepted[k].form.name)))

\* The reviews a card can have been built from
KnownReviews == { accepted[k].review : k \in DOMAIN accepted } \cup Range(SeedReviews)

\* C17: the card of a review with rating r (1..5) has five star glyphs, the
\* first r of them filled (#ffc107) and the other 5 - r dim.
C17_StarGlyphs ==
  \A i \in DOMAIN cards :
    \A review \in KnownReviews :
      cards[i].of = review.id =>
        /\ review.rating \in 1..5
        /\ Len(cards[i].stars) = 5
        /\ \A j \in 1..5 :
             cards[i].stars[j] =
               (IF j <= review.rating THEN "#ffc107" ELSE "rgba(255,255,255,0.2)")

\* the card of a review submitted with three stars
C17_Witness ==
  /\ accepted # << >>
  /\ NewestAccepted.review.rating = 3
  /\ cards # << >>
  /\ cards[1].of = NewestAccepted.review.id
  /\ cards[1].stars = <<"#ffc107", "#ffc107", "#ffc107",
                        "rgba(255,255,255,0.2)", "rgba(255,255,255,0.2)">>

\* C18: every review of the stored collection has a name that is not empty
\* after trimming.
C18_NameNonEmpty ==
  store.kind = "array" =>
    \A i \in DOMAIN store.reviews : Trim(store.reviews[i].name) # << >>

InDocument(nid) == \E i \in DOMAIN notifIds : notifIds[i] = nid

\* C19: every notification that is shown is removed from the page in the
\* end, with no user action needed: its 5 s timer and then its 300 ms timer
\* fire (a click on its close button sets the 300 ms timer as well), so no
\* notification stays in the document for ever.
C19_NotificationsGoAway ==
  \A nid \in NotifIds : InDocument(nid) ~> ~InDocument(nid)

\* in one page view, with no click on a close button, a notification has
\* been shown and every timer has fired: none is left in the document
C19_Witness ==
  /\ loads = 1
  /\ last.op = "submit"
  /\ created > 0
  /\ notifs = << >>
  /\ timers = {}

\* C20: when the submits of the two tabs do not overlap, none is lost: each
\* submit reads the store afresh, so every accepted review with fewer than
\* 50 newer ones is in the stored collection, the newest first, also when
\* the submitting tab loaded its page before the other tab wrote.
C20_SerialSubmitsKeepAll ==
  \A k \in DOMAIN accepted :
    Len(accepted) - k < MaxStored =>
      /\ store.kind = "array"
      /\ Len(store.reviews) >= Len(accepted)
      /\ store.reviews[Len(accepted) - k + 1] = accepted[k].review

\* the other tab submitted first, this tab (whose page was loaded before
\* that and shows no card of it) second, and both reviews are stored
C20_Witness ==
  /\ Len(accepted) = 2
  /\ \A tab \in Tabs : ~pending[tab].busy
  /\ other.cards # << >> /\ other.cards[1].of = accepted[1].review.id
  /\ cards # << >> /\ cards[1].of = accepted[2].review.id
  /\ \A i \in DOMAIN cards : cards[i].of # accepted[1].review.id
  /\ store.reviews[1] = accepted[2].review
  /\ store.reviews[2] = accepted[1].review

\* C21: after every click, mouse event and submission the stars carrying
\* 'active' are exactly the first r stars, r the value of #rating-value; a
\* submission leaves the value 0 and no star active, so that a submission
\* that follows another with no click in between is rejected.
C21_ActiveStarsMatchRating ==
  [][/\ activeStars' = {i \in 0..4 : i < ParseInt(ratingValue')}
     /\ submits' = submits + 1 => (ratingValue' = "0" /\ activeStars' = {})
     /\ (submits' = submits + 1 /\ last.op = "submit") =>
           (accepted' = accepted /\ store' = store /\ notifs' = << Rejection >>)]_vars

\* in one page view a submission was accepted and the next one, made with no
\* star clicked since, was rejected
C21_Witness ==
  /\ loads = 1
  /\ submits = 2
  /\ Len(accepted) = 1
  /\ last.op = "submit"
  /\ last.rating = 0
  /\ ratingValue = "0"
  /\ activeStars = {}

\* C22: one submit event with a star selected adds exactly one review to the
\* stored collection, with every submit listener the page has installed on
\* the form taken into account: one setItem, one review built, and the new
\* review once in the collection.
C22_OneReviewPerSubmit ==
  [][(submits' = submits + 1 /\ ParseInt(ratingValue) \in 1..5) =>
        /\ last'.writes = 1
        /\ Len(accepted') = Len(accepted) + 1
        /\ Len(store'.reviews) = Min(Len(ParseStored(store).reviews) + 1, MaxStored)
        /\ Cardinality({i \in DOMAIN store'.reviews :
                          store'.reviews[i].id = accepted'[Len(accepted')].review.id}) = 1]_vars

\* a submit event has run both submit listeners of the page and stored one review
C22_Witness ==
  /\ last.op = "submit"
  /\ last.rating \in 1..5
  /\ last.writes = 1
  /\ submitListeners = 2
  /\ Len(accepted) = 1
  /\ Len(store.reviews) = SeedCount + 1

\* C23: after a submit event with a star selected has been dispatched the
\* notification on the page is 'Thank you for your review!'; 'Please select
\* a star rating' is on the page only after a submit with no star selected.
C23_ThanksAfterAcceptedSubmit ==
  [][submits' = submits + 1 =>
        notifs' = << IF ParseInt(ratingValue) \in 1..5
                     THEN [message |-> ThanksMessage, type |-> "success"]
                     ELSE Rejection >>]_vars

\* The place of the review numbered id in the stored collection
StoredAt(id) == CHOOSE i \in DOMAIN store.reviews : store.reviews[i].id = id

\* C24: after a page load the cards of the panel, top to bottom, follow the
\* order of the stored collection, newest first.
C24_CardsInStoredOrder ==
  (last.op = "load" /\ ~pageError) =>
    \A i, j \in DOMAIN cards : i < j => StoredAt(cards[i].of) <= StoredAt(cards[j].of)

\* C25: once the page has been initialised the panel holds exactly one card
\* per stored review: as many cards as stored reviews, each card built from
\* a stored review and each stored review with a card.
C25_OneCardPerReview ==
  (loads > 0 /\ ~pageError) =>
    /\ Len(cards) = Len(store.reviews)
    /\ \A i \in DOMAIN cards :
         \E j \in DOMAIN store.reviews : store.reviews[j].id = cards[i].of
    /\ \A j \in DOMAIN store.reviews :
         \E i \in DOMAIN cards : cards[i].of = store.reviews[j].id

\* C26: a click on the theme toggle, once dispatched to every listener of the
\* button, leaves data-theme switched to the opposite theme (dark becomes
\* light, anything else dark), and the item 'theme' equal to the data-theme
\* then displayed.
C26_ClickSwitchesTheme ==
  [][ThemeClick =>
        /\ theme'.attr = (IF theme.attr = "dark" THEN "light" ELSE "dark")
        /\ theme'.stored = theme'.attr]_vars

\* C27: once every request of a contact-form submission has settled, with
\* whatever outcome and in whatever order, the submit button is enabled and
\* shows the label it had before, not 'Sending...'.
C27_ButtonRestored ==
  contact.inflight = << >> => (~contact.disabled /\ contact.label = SendLabel)

\* C28: one submit event on the contact form sends exactly one POST when
\* name, email and message are non-empty and the email matches the pattern,
\* and otherwise sends none and leaves an error notification.
C28_OnePostPerSubmit ==
  [][\A data \in ContactData :
       ContactSubmit(data) =>
         IF /\ data.name # << >> /\ data.email # << >> /\ data.message # << >>
            /\ isValidEmail(data.email)
         THEN contact'.posts = contact.posts + 1
         ELSE /\ contact'.posts = contact.posts
              /\ Len(notifs') = 1
              /\ notifs'[1].type = "error"]_vars

\* C29: at most one notification is in the document at any time, whatever
\* the order of showNotification calls, close clicks and timers; and a
\* timer of one notification never removes another: when it fires, every
\* other notification in the document stays.
C29_AtMostOneNotification ==
  [][/\ Len(notifs') <= 1
     /\ \A nid \in NotifIds :
          (TimerExpires(nid) \/ TimerRemoves(nid)) =>
             \A i \in DOMAIN notifIds :
                notifIds[i] # nid => (notifs' = notifs /\ notifIds' = notifIds)]_vars

\* the timers of the earlier notifications have fired and the latest
\* notification, whose own timer is pending, is still in the document
C29_Witness ==
  /\ created = 2 * MaxSubmits
  /\ notifIds = << created >>
  /\ timers = {[fires |-> "expire", nid |-> created]}

\* C30: whenever the review modal is open the page's scrolling is locked
\* (body overflow 'hidden'), and when the modal closes it is unlocked,
\* whatever the load event, the preloader's timers and the clicks on the
\* menu button and the nav links do in between.
C30_ModalLocksScroll ==
  [][/\ modalActive' => bodyOverflow' = "hidden"
     /\ (modalActive /\ ~modalActive') => bodyOverflow' # "hidden"]_vars

====
